---- MODULE Spec2Model ----
(***************************************************************************)
(* Model of three mechanisms of the oxc snapshot:                          *)
(*   - crates/oxc_syntax/src/nonmax.rs        (NonMax* niche integers)     *)
(*   - crates/oxc_ast_macros/src/lib.rs       (#[ast] repr normalisation,  *)
(*                                             #[derive(CloneIn)])         *)
(*   - tasks/ast_tools/src/derives/content_hash.rs (ContentHash derive)    *)
(*                                                                         *)
(* A native unsigned integer is a sequence of base-256 digits, least       *)
(* significant digit first, as long as the type is wide, so that the       *)
(* 32/64/128-bit arithmetic of the source keeps its width.                 *)
(***************************************************************************)
EXTENDS Integers, Sequences, FiniteSets, TLC

VARIABLES
    target,     \* the build target: [endian, pointer_width]
    native,     \* the $native type the impl_nonmax! instance is for
    n,          \* first native input
    m,          \* second native input
    x,          \* construction of a NonMax from n: [op, status, val]
    y,          \* construction of a NonMax from m: [op, status, val]
    ret,        \* what the last observer (to_native, eq, cmp, ...) returned
    item,       \* first item handed to #[ast]
    item2,      \* second item handed to #[ast]
    out,        \* what #[ast] produced for item
    out2,       \* what #[ast] produced for item2
    def,        \* TypeDef handed to DeriveContentHash::derive
    impl,       \* the impl block derive emitted for def
    node1,      \* a value of the type def
    node2,      \* another value of the type def
    state1,     \* values the hasher absorbed for node1
    state2,     \* values the hasher absorbed for node2
    clone_item, \* item handed to #[derive(CloneIn)]: [ident, generics, def]
    clone_out,  \* what derive_clone_in produced for clone_item
    clone_self, \* a value of the type clone_item
    clone_ret   \* what the emitted clone_in returned for clone_self

nonmaxVars == <<target, native, n, m, x, y, ret>>
layoutVars == <<item, item2, out, out2>>
hashVars == <<def, impl, node1, node2, state1, state2>>
cloneVars == <<clone_item, clone_out, clone_self, clone_ret>>
vars == <<target, native, n, m, x, y, ret, item, item2, out, out2,
          def, impl, node1, node2, state1, state2,
          clone_item, clone_out, clone_self, clone_ret>>

(***************************************************************************)
(* Bounds of the model.                                                    *)
(***************************************************************************)
\* The most significant byte of an input lies within Spread of 0 or of 254
\* (255 included); the other bytes are all 0 or all 255.
Spread == 1

\* A struct has at most MaxFields fields, an enum at most MaxVariants variants.
MaxFields == 2

MaxVariants == 2

\* An item has at most MaxGenerics generic parameters.
MaxGenerics == 2

(***************************************************************************)
(* Values of the variables before anything has run, and the idle part of   *)
(* each specification: every specification runs one mechanism and leaves   *)
(* the variables of the other two as they are here.                        *)
(***************************************************************************)
NoVal == [top |-> 0 - 1, bottom |-> <<>>]

NotBuilt == [op |-> "none", status |-> "none", val |-> NoVal]

NoRet == [op |-> "none", num |-> <<>>, ord |-> "none", flag |-> FALSE]

NoDef == [kind |-> "none", fields |-> <<>>, variants |-> <<>>]

NoOut == [status |-> "none", derive |-> "", repr |-> "", item |-> NoDef]

NoNode == [variant |-> 0 - 1, values |-> <<>>]

NoState == [status |-> "none", absorbed |-> <<>>]

NoCloneItem == [ident |-> "", generics |-> <<>>, def |-> NoDef]

NoCloneOut == [status |-> "none", impls |-> <<>>]

NonMaxIdle ==
    /\ target = [endian |-> "little", pointer_width |-> 64]
    /\ native = "u8"
    /\ n = <<0>>
    /\ m = <<0>>
    /\ x = NotBuilt
    /\ y = NotBuilt
    /\ ret = NoRet

LayoutIdle ==
    /\ item = NoDef
    /\ item2 = NoDef
    /\ out = NoOut
    /\ out2 = NoOut

HashIdle ==
    /\ def = NoDef
    /\ impl = <<>>
    /\ node1 = NoNode
    /\ node2 = NoNode
    /\ state1 = NoState
    /\ state2 = NoState

CloneIdle ==
    /\ clone_item = NoCloneItem
    /\ clone_out = NoCloneOut
    /\ clone_self = NoNode
    /\ clone_ret = NoNode

(***************************************************************************)
(* Native unsigned integers.                                               *)
(***************************************************************************)
Natives == {"u8", "u16", "u32", "u64", "u128", "usize"}

Targets == [endian : {"little", "big"}, pointer_width : {32, 64}]

\* $native::BITS
BITS(t) ==
    CASE t = "u8" -> 8
      [] t = "u16" -> 16
      [] t = "u32" -> 32
      [] t = "u64" -> 64
      [] t = "u128" -> 128
      [] t = "usize" -> target.pointer_width

\* size_of::<$native>()
size_of(t) == BITS(t) \div 8

\* `v as $native` for a v below 256
as_native(v, t) == [i \in 1..size_of(t) |-> IF i = 1 THEN v ELSE 0]

\* x << k at the width of x: the bits shifted out at the top are lost
Shl1(a) ==
    [i \in 1..Len(a) |->
        ((2 * a[i]) % 256) + (IF i > 1 /\ a[i - 1] >= 128 THEN 1 ELSE 0)]

RECURSIVE ShlBits(_, _)
ShlBits(a, k) == IF k = 0 THEN a ELSE ShlBits(Shl1(a), k - 1)

Shl(a, k) ==
    LET bytes == k \div 8
        moved == [i \in 1..Len(a) |-> IF i > bytes THEN a[i - bytes] ELSE 0]
    IN  ShlBits(moved, k % 8)

\* x >> k at the width of x
Shr1(a) ==
    [i \in 1..Len(a) |->
        (a[i] \div 2) + (IF i < Len(a) /\ a[i + 1] % 2 = 1 THEN 128 ELSE 0)]

RECURSIVE ShrBits(_, _)
ShrBits(a, k) == IF k = 0 THEN a ELSE ShrBits(Shr1(a), k - 1)

Shr(a, k) ==
    LET bytes == k \div 8
        moved == [i \in 1..Len(a) |->
                    IF i + bytes <= Len(a) THEN a[i + bytes] ELSE 0]
    IN  ShrBits(moved, k % 8)

\* x - 1 at the width of x, wrapping
Borrows(a, i) == \A j \in 1..(i - 1) : a[j] = 0

Sub1(a) ==
    [i \in 1..Len(a) |-> IF Borrows(a, i) THEN (a[i] + 255) % 256 ELSE a[i]]

\* a < b, a and b of one width
Lt(a, b) ==
    \E i \in 1..Len(a) :
        /\ a[i] < b[i]
        /\ \A j \in (i + 1)..Len(a) : a[j] = b[j]

\* a <= b
Le(a, b) == a = b \/ Lt(a, b)

\* Ord::cmp of the native type
native_cmp(a, b) ==
    IF Lt(a, b) THEN "Less" ELSE IF a = b THEN "Equal" ELSE "Greater"

(***************************************************************************)
(* impl_nonmax!: the NonMax* types.                                        *)
(***************************************************************************)
\* The variants of enum NonMaxU8, by discriminant: there is none for 255.
NonMaxU8 == 0..254

Reverse(a) == [i \in 1..Len(a) |-> a[Len(a) + 1 - i]]

\* The bytes of a native value in memory, and back.
to_ne_bytes(a) == IF target.endian = "little" THEN a ELSE Reverse(a)

from_ne_bytes(b) == IF target.endian = "little" THEN b ELSE Reverse(b)

\* The struct with `top` as its last field on every target (the
\* cfg(target_endian = "big") field left out).
struct_of_bytes_top_last(b) ==
    [top |-> b[Len(b)], bottom |-> SubSeq(b, 1, Len(b) - 1)]

\* The struct NonMaxU16/32/64/128/Usize laid over `size` bytes of memory
\* (repr(C)): `top` is the first byte on a big-endian target and the last
\* on a little-endian one, `bottom` the other bytes. NonMaxU8 is `top` alone.
struct_of_bytes(b) ==
    IF target.endian = "big"
    THEN [top |-> b[1], bottom |-> SubSeq(b, 2, Len(b))]
    ELSE [top |-> b[Len(b)], bottom |-> SubSeq(b, 1, Len(b) - 1)]

bytes_of_struct(v) ==
    IF target.endian = "big" THEN <<v.top>> \o v.bottom ELSE v.bottom \o <<v.top>>

\* MAX with the `- 1` left out
MAX_without_decrement(t) == Shl(as_native(255, t), BITS(t) - 8)

\* const MAX: $native = ((255 as $native) << ($native::BITS - 8)) - 1
MAX(t) == Sub1(Shl(as_native(255, t), BITS(t) - 8))

\* unsafe fn new_unchecked: transmute::<$native, Self>(n). The outcomes: the
\* value with the bits of n when they are a valid NonMax; undefined behaviour
\* otherwise (`top` holds a byte that is no variant of NonMaxU8), where the
\* build may produce any byte in `top`.
new_unchecked(a) ==
    LET v == struct_of_bytes(to_ne_bytes(a))
    IN  IF v.top \in NonMaxU8
        THEN {v}
        ELSE {[v EXCEPT !.top = b] : b \in 0..255}

\* new with the assert! left out
new_without_assert(a, t) == {[status |-> "Ok", val |-> v] : v \in new_unchecked(a)}

\* const fn new: assert!(n <= Self::MAX); new_unchecked(n)
new(a, t) ==
    IF Le(a, MAX(t))
    THEN {[status |-> "Ok", val |-> v] : v \in new_unchecked(a)}
    ELSE {[status |-> "Panic", val |-> NoVal]}

\* TryFrom<$native>::try_from
try_from(a, t) ==
    IF Le(a, MAX(t))
    THEN {[status |-> "Ok", val |-> v] : v \in new_unchecked(a)}
    ELSE {[status |-> "Err", val |-> NoVal]}

\* to_native that reads the bytes of the struct in little-endian order on
\* every target
to_native_little_endian_only(v) == bytes_of_struct(v)

\* const fn to_native: transmute::<Self, $native>(self)
to_native(v) == from_ne_bytes(bytes_of_struct(v))

\* PartialEq::eq
eq(v, w) == to_native(v) = to_native(w)

\* cmp that compares the bytes in memory order instead of the native values
cmp_memory_order(v, w) ==
    IF \E i \in 1..Len(bytes_of_struct(v)) :
          /\ bytes_of_struct(v)[i] < bytes_of_struct(w)[i]
          /\ \A j \in 1..(i - 1) : bytes_of_struct(v)[j] = bytes_of_struct(w)[j]
    THEN "Less"
    ELSE IF bytes_of_struct(v) = bytes_of_struct(w) THEN "Equal" ELSE "Greater"

\* Ord::cmp
cmp(v, w) == native_cmp(to_native(v), to_native(w))

\* PartialOrd::partial_cmp: Some(self.cmp(other))
partial_cmp(v, w) == [some |-> TRUE, ord |-> cmp(v, w)]

(***************************************************************************)
(* The NonMax state machine: n and m are turned into NonMax values x and   *)
(* y by new or try_from, and the values are observed.                      *)
(***************************************************************************)
TopSample == {b \in 0..255 : b <= Spread \/ b >= 254 - Spread}

FillSample == {0, 255}

Inputs(t) ==
    {[i \in 1..size_of(t) |-> IF i = size_of(t) THEN hi ELSE lo] :
        hi \in TopSample, lo \in FillSample}

Panicked == x.status = "Panic" \/ y.status = "Panic"

InitNonMax ==
    /\ target \in Targets
    /\ native \in Natives
    /\ n \in Inputs(native)
    /\ m \in Inputs(native)
    /\ x = NotBuilt
    /\ y = NotBuilt
    /\ ret = NoRet
    /\ LayoutIdle
    /\ HashIdle
    /\ CloneIdle

NewX ==
    /\ x.op = "none" /\ ~Panicked
    /\ \E r \in new(n, native) :
        x' = [op |-> "new", status |-> r.status, val |-> r.val]
    /\ UNCHANGED <<target, native, n, m, y, ret>>
    /\ UNCHANGED <<layoutVars, hashVars, cloneVars>>

NewY ==
    /\ y.op = "none" /\ ~Panicked
    /\ \E r \in new(m, native) :
        y' = [op |-> "new", status |-> r.status, val |-> r.val]
    /\ UNCHANGED <<target, native, n, m, x, ret>>
    /\ UNCHANGED <<layoutVars, hashVars, cloneVars>>

TryFromX ==
    /\ x.op = "none" /\ ~Panicked
    /\ \E r \in try_from(n, native) :
        x' = [op |-> "try_from", status |-> r.status, val |-> r.val]
    /\ UNCHANGED <<target, native, n, m, y, ret>>
    /\ UNCHANGED <<layoutVars, hashVars, cloneVars>>

TryFromY ==
    /\ y.op = "none" /\ ~Panicked
    /\ \E r \in try_from(m, native) :
        y' = [op |-> "try_from", status |-> r.status, val |-> r.val]
    /\ UNCHANGED <<target, native, n, m, x, ret>>
    /\ UNCHANGED <<layoutVars, hashVars, cloneVars>>

ToNative ==
    /\ x.status = "Ok" /\ ~Panicked
    /\ ret' = [NoRet EXCEPT !.op = "to_native", !.num = to_native(x.val)]
    /\ UNCHANGED <<target, native, n, m, x, y>>
    /\ UNCHANGED <<layoutVars, hashVars, cloneVars>>

Eq ==
    /\ x.status = "Ok" /\ y.status = "Ok"
    /\ ret' = [NoRet EXCEPT !.op = "eq", !.flag = eq(x.val, y.val)]
    /\ UNCHANGED <<target, native, n, m, x, y>>
    /\ UNCHANGED <<layoutVars, hashVars, cloneVars>>

PartialCmp ==
    /\ x.status = "Ok" /\ y.status = "Ok"
    /\ LET r == partial_cmp(x.val, y.val)
       IN  ret' = [NoRet EXCEPT !.op = "partial_cmp", !.flag = r.some, !.ord = r.ord]
    /\ UNCHANGED <<target, native, n, m, x, y>>
    /\ UNCHANGED <<layoutVars, hashVars, cloneVars>>

Cmp ==
    /\ x.status = "Ok" /\ y.status = "Ok"
    /\ ret' = [NoRet EXCEPT !.op = "cmp", !.ord = cmp(x.val, y.val)]
    /\ UNCHANGED <<target, native, n, m, x, y>>
    /\ UNCHANGED <<layoutVars, hashVars, cloneVars>>

NextNonMax ==
    NewX \/ NewY \/ TryFromX \/ TryFromY \/ ToNative \/ Eq \/ PartialCmp \/ Cmp

(***************************************************************************)
(* Type definitions: the items #[ast] is put on and the TypeDefs the       *)
(* ContentHash derive is run for.                                          *)
(*   struct: fields, each [name, typ]; name is <<>> (None, a tuple field)  *)
(*           or <<"ident">>; typ is field.typ.name().inner_name()          *)
(*   enum:   variants, each [ident, style, typ], style "Unit", "Unnamed"   *)
(*           (`A(T)`) or "Named" (`A { f: T }`)                            *)
(***************************************************************************)
Field(name, typ) == [name |-> name, typ |-> typ]

FieldPool ==
    {Field(<<"span">>, "Span"), Field(<<"trailing_comma">>, "Span"),
     Field(<<"this_span">>, "Span"), Field(<<"scope_id">>, "ScopeId"),
     Field(<<"symbol_id">>, "SymbolId"), Field(<<"reference_id">>, "ReferenceId"),
     Field(<<"span">>, "u32"), Field(<<"scope_id">>, "SymbolId"),
     Field(<<"value">>, "Span"), Field(<<"value">>, "u32"),
     Field(<<>>, "u32"), Field(<<>>, "Span")}

LayoutFieldPool ==
    {Field(<<"span">>, "Span"), Field(<<"value">>, "u32"), Field(<<>>, "u32")}

\* The field lists of a struct over a pool: all fields named, with distinct
\* names, or all unnamed (a tuple struct), or none.
FieldLists(pool) ==
    UNION {{fs \in [1..k -> pool] :
                /\ \A i, j \in 1..k : (fs[i].name = <<>>) = (fs[j].name = <<>>)
                /\ \A i, j \in 1..k :
                      i # j /\ fs[i].name # <<>> => fs[i].name # fs[j].name} :
           k \in 0..MaxFields}

VariantIdents == {"A", "B", "C"}

Variants(styles) ==
    {[ident |-> id, style |-> st, typ |-> IF st = "Unit" THEN "" ELSE "u32"] :
        id \in VariantIdents, st \in styles}

VariantLists(styles) ==
    UNION {{vs \in [1..k -> Variants(styles)] :
                \A i, j \in 1..k : i # j => vs[i].ident # vs[j].ident} :
           k \in 0..MaxVariants}

StructDefs(pool) ==
    {[kind |-> "Struct", fields |-> fs, variants |-> <<>>] : fs \in FieldLists(pool)}

EnumDefs(styles) ==
    {[kind |-> "Enum", fields |-> <<>>, variants |-> vs] : vs \in VariantLists(styles)}

(***************************************************************************)
(* oxc_ast_macros: the #[ast] attribute.                                   *)
(***************************************************************************)
\* An item that is neither a struct nor an enum.
OtherItem == [kind |-> "Fn", fields |-> <<>>, variants |-> <<>>]

Items ==
    StructDefs(LayoutFieldPool) \cup EnumDefs({"Unit", "Unnamed", "Named"})
        \cup {OtherItem}

\* enum_repr that asks for every variant to be non-unit
enum_repr_all_fieldful(enum_) ==
    IF \A i \in 1..Len(enum_.variants) : enum_.variants[i].style # "Unit"
    THEN "repr(C, u8)"
    ELSE "repr(u8)"

\* fn enum_repr
enum_repr(enum_) ==
    IF \E i \in 1..Len(enum_.variants) : enum_.variants[i].style # "Unit"
    THEN "repr(C, u8)"
    ELSE "repr(u8)"

\* pub fn ast: the attributes prepended to the item, or the panic of
\* unreachable!() for an item that is neither an enum nor a struct.
ast(input) ==
    IF input.kind = "Enum"
    THEN [status |-> "Ok", derive |-> "::oxc_ast_macros::Ast",
          repr |-> enum_repr(input), item |-> input]
    ELSE IF input.kind = "Struct"
    THEN [status |-> "Ok", derive |-> "::oxc_ast_macros::Ast",
          repr |-> "repr(C)", item |-> input]
    ELSE [NoOut EXCEPT !.status = "Panic"]

InitLayout ==
    /\ NonMaxIdle
    /\ HashIdle
    /\ CloneIdle
    /\ item \in Items
    /\ item2 \in Items
    /\ out = NoOut
    /\ out2 = NoOut

Ast ==
    /\ out.status = "none"
    /\ out' = ast(item)
    /\ UNCHANGED <<item, item2, out2>>
    /\ UNCHANGED <<nonmaxVars, hashVars, cloneVars>>

Ast2 ==
    /\ out.status # "none"
    /\ out2.status = "none"
    /\ out2' = ast(item2)
    /\ UNCHANGED <<item, item2, out>>
    /\ UNCHANGED <<nonmaxVars, hashVars, cloneVars>>

NextLayout == Ast \/ Ast2

(***************************************************************************)
(* ast_tools: the ContentHash derive.                                      *)
(*                                                                         *)
(* The emitted function body is a sequence of tokens [t, ident]:           *)
(*   "field_hash"         self.#ident.content_hash(state);                 *)
(*   "discriminant_hash"  ContentHash::content_hash(&discriminant(self),   *)
(*                                                   state);               *)
(*   "match_open"         match self {                                     *)
(*   "arm"                Self::#ident(it) => it.content_hash(state)       *)
(*   ","                  ,                                                *)
(*   "wild_arm"           _ => {}                                          *)
(*   "match_close"        }                                                *)
(***************************************************************************)
Tok(t, ident) == [t |-> t, ident |-> ident]

\* const IGNORE_FIELDS
IGNORE_FIELDS ==
    <<  <<"span", "Span">>,
        <<"trailing_comma", "Span">>,
        <<"this_span", "Span">>,
        <<"scope_id", "ScopeId">>,
        <<"symbol_id", "SymbolId">>,
        <<"reference_id", "ReferenceId">>  >>

\* VariantDef::is_unit
var_is_unit(var) == var.style = "Unit"

\* EnumDef::is_unit
is_unit(d) == \A i \in 1..Len(d.variants) : var_is_unit(d.variants[i])

\* quote!'s #(#items),*: the items with a comma between each two
RECURSIVE Separated(_)
Separated(items) ==
    IF Len(items) <= 1 THEN items
    ELSE <<Head(items), Tok(",", "")>> \o Separated(Tail(items))

\* A filter that drops the fields without a name and keeps all others.
field_is_named(field) == field.name # <<>>

\* The closure of derive_struct's filter: a field without a name is dropped,
\* a named one is kept unless an entry of IGNORE_FIELDS has its name and type.
field_is_kept(field) ==
    IF field.name = <<>> THEN FALSE
    ELSE ~\E k \in 1..Len(IGNORE_FIELDS) :
            /\ field.name[1] = IGNORE_FIELDS[k][1]
            /\ field.typ = IGNORE_FIELDS[k][2]

\* fn derive_struct
derive_struct(d) ==
    IF d.fields = <<>>
    THEN [hasher |-> "_", body |-> <<>>]
    ELSE LET kept == SelectSeq(d.fields, field_is_kept)
             fields == [i \in 1..Len(kept) |-> Tok("field_hash", kept[i].name[1])]
         IN  IF fields = <<>>
             THEN [hasher |-> "_", body |-> <<>>]
             ELSE [hasher |-> "state", body |-> fields]

\* fn derive_enum
derive_enum(d) ==
    LET body == <<Tok("discriminant_hash", "")>>
        var_is_fieldful(var) == ~var_is_unit(var)
        nonunit == SelectSeq(d.variants, var_is_fieldful)
        non_exhaustive == \E i \in 1..Len(d.variants) : var_is_unit(d.variants[i])
        matches == [i \in 1..Len(nonunit) |-> Tok("arm", nonunit[i].ident)]
        exhaust == IF non_exhaustive THEN <<Tok("wild_arm", "")>> ELSE <<>>
    IN  [hasher |-> "state",
         body |-> body \o
                  (IF is_unit(d) THEN <<>>
                   ELSE <<Tok("match_open", "")>> \o Separated(matches) \o exhaust
                            \o <<Tok("match_close", "")>>)]

\* fn impl_content_hash: the impl block around the body
impl_content_hash(d, hasher_name, body) ==
    [trait |-> "ContentHash", ty |-> d, hasher |-> hasher_name, body |-> body]

\* DeriveContentHash::derive: the token stream it returns, as the list of
\* impl blocks in it
derive(d) ==
    LET r == IF d.kind = "Enum" THEN derive_enum(d) ELSE derive_struct(d)
    IN  <<impl_content_hash(d, r.hasher, r.body)>>

(***************************************************************************)
(* The emitted impl, compiled and called.                                  *)
(*   a value of a struct: [variant |-> 0, values |-> one value per field]  *)
(*   a value of an enum:  [variant |-> i, values |-> the payload, if any]  *)
(***************************************************************************)
Values == {5, 6}

Nodes(d) ==
    IF d.kind = "Struct"
    THEN {[variant |-> 0, values |-> vs] : vs \in [1..Len(d.fields) -> Values]}
    ELSE UNION {IF var_is_unit(d.variants[i])
                THEN {[variant |-> i, values |-> <<>>]}
                ELSE {[variant |-> i, values |-> <<v>>] : v \in Values} :
                i \in 1..Len(d.variants)}

\* The tokens between `match self {` and `}`.
match_arms(body) ==
    LET open == CHOOSE i \in 1..Len(body) : body[i].t = "match_open"
    IN  SubSeq(body, open + 1, Len(body) - 1)

has_match(body) == \E i \in 1..Len(body) : body[i].t = "match_open"

\* Rust's grammar of match arms: an arm whose body is an expression is
\* followed by a comma unless it is the last; `_ => {}` has a block body and
\* needs none; a comma follows an arm only.
match_is_well_formed(arms) ==
    \A i \in 1..Len(arms) :
        /\ arms[i].t \in {"arm", ",", "wild_arm"}
        /\ arms[i].t = "arm" => (i = Len(arms) \/ arms[i + 1].t = ",")
        /\ arms[i].t = "," => (i > 1 /\ arms[i - 1].t # ",")

\* Every variant of the enum is matched: by its own arm or by `_`.
match_is_exhaustive(arms, d) ==
    \A i \in 1..Len(d.variants) :
        \E k \in 1..Len(arms) :
            \/ arms[k].t = "wild_arm"
            \/ /\ arms[k].t = "arm"
               /\ arms[k].ident = d.variants[i].ident
               /\ ~var_is_unit(d.variants[i])

\* Whether rustc accepts the impl: the match parses and covers the enum, and
\* a body that names `state` has a parameter of that name.
compiles(block) ==
    /\ \A i \in 1..Len(block.body) :
          block.body[i].t \in {"field_hash", "discriminant_hash", "arm"}
              => block.hasher = "state"
    /\ \A i \in 1..Len(block.body) :
          block.body[i].t = "field_hash" =>
              \E k \in 1..Len(block.ty.fields) :
                  block.ty.fields[k].name = <<block.body[i].ident>>
    /\ has_match(block.body) =>
          /\ block.body[Len(block.body)].t = "match_close"
          /\ match_is_well_formed(match_arms(block.body))
          /\ match_is_exhaustive(match_arms(block.body), block.ty)

Absorbed(kind, v) == [kind |-> kind, v |-> v]

\* What one statement of the body makes the hasher absorb for `self`.
absorbs(tok, d, self) ==
    IF tok.t = "field_hash"
    THEN LET k == CHOOSE k \in 1..Len(d.fields) : d.fields[k].name = <<tok.ident>>
         IN  <<Absorbed("value", self.values[k])>>
    ELSE IF tok.t = "discriminant_hash"
    THEN <<Absorbed("discriminant", self.variant)>>
    ELSE IF tok.t = "arm" /\ d.variants[self.variant].ident = tok.ident
    THEN <<Absorbed("value", self.values[1])>>
    ELSE <<>>

RECURSIVE run(_, _, _)
run(body, d, self) ==
    IF body = <<>> THEN <<>>
    ELSE absorbs(Head(body), d, self) \o run(Tail(body), d, self)

\* fn content_hash of the emitted impl, called on `self` with a fresh hasher
content_hash(block, self) ==
    IF compiles(block)
    THEN [status |-> "Ok", absorbed |-> run(block.body, block.ty, self)]
    ELSE [status |-> "CompileError", absorbed |-> <<>>]

(***************************************************************************)
(* The derive state machine: derive runs for a TypeDef, then the emitted   *)
(* function is called on two values of the type.                           *)
(***************************************************************************)
TypeDefs == StructDefs(FieldPool) \cup EnumDefs({"Unit", "Unnamed"})

UniformNodes(d) ==
    IF d.kind = "Struct"
    THEN {nd \in Nodes(d) : \A i, j \in 1..Len(nd.values) : nd.values[i] = nd.values[j]}
    ELSE Nodes(d)

OrNoNode(nodes) == IF nodes = {} THEN {NoNode} ELSE nodes

InitHash ==
    /\ NonMaxIdle
    /\ LayoutIdle
    /\ CloneIdle
    /\ def \in TypeDefs
    /\ impl = <<>>
    /\ node1 \in OrNoNode(UniformNodes(def))
    /\ node2 \in OrNoNode(Nodes(def))
    /\ state1 = NoState
    /\ state2 = NoState

Derive ==
    /\ impl = <<>>
    /\ impl' = derive(def)
    /\ UNCHANGED <<def, node1, node2, state1, state2>>
    /\ UNCHANGED <<nonmaxVars, layoutVars, cloneVars>>

ContentHash1 ==
    /\ impl # <<>> /\ node1 # NoNode
    /\ state1.status = "none"
    /\ state1' = content_hash(impl[1], node1)
    /\ UNCHANGED <<def, impl, node1, node2, state2>>
    /\ UNCHANGED <<nonmaxVars, layoutVars, cloneVars>>

ContentHash2 ==
    /\ impl # <<>> /\ node2 # NoNode
    /\ state1.status # "none" /\ state2.status = "none"
    /\ state2' = content_hash(impl[1], node2)
    /\ UNCHANGED <<def, impl, node1, node2, state1>>
    /\ UNCHANGED <<nonmaxVars, layoutVars, cloneVars>>

NextHash == Derive \/ ContentHash1 \/ ContentHash2

(***************************************************************************)
(* Specifications.                                                         *)
(***************************************************************************)
(***************************************************************************)
(* oxc_ast_macros: #[derive(CloneIn)].                                     *)
(*   an item: [ident, generics, def]; generics is the list of the generic  *)
(*   parameters, each [kind, ident], kind "lifetime", "type" or "const"    *)
(***************************************************************************)
GenericParams ==
    {[kind |-> "lifetime", ident |-> "'a"], [kind |-> "type", ident |-> "T"],
     [kind |-> "const", ident |-> "N"]}

GenericLists ==
    UNION {{g \in [1..k -> GenericParams] :
                \A i, j \in 1..k : i # j => g[i] # g[j]} :
           k \in 0..MaxGenerics}

\* A union: the item a derive macro can be put on that is neither a struct
\* nor an enum.
UnionItem == [kind |-> "Union", fields |-> <<>>, variants |-> <<>>]

CloneItems ==
    {[ident |-> id, generics |-> g, def |-> d] :
        id \in {"Foo", "Bar"},
        g \in GenericLists,
        d \in StructDefs(LayoutFieldPool) \cup EnumDefs({"Unit", "Unnamed"})
                \cup {UnionItem}}

\* derive_clone_in without the guard `if generics.params.is_empty()`
derive_clone_in_for_any_generics(it) ==
    IF it.def.kind \in {"Struct", "Enum"}
    THEN [status |-> "Ok",
          impls |-> <<[trait |-> "::oxc_allocator::CloneIn", for |-> it.ident,
                       Cloned |-> it.ident,
                       body |-> "std::clone::Clone::clone(self)"]>>]
    ELSE [status |-> "Panic", impls |-> <<>>]

\* pub fn derive_clone_in: the impl emitted for a struct or an enum without
\* generic parameters, the panic for everything else.
derive_clone_in(it) ==
    IF it.def.kind \in {"Struct", "Enum"} /\ it.generics = <<>>
    THEN [status |-> "Ok",
          impls |-> <<[trait |-> "::oxc_allocator::CloneIn", for |-> it.ident,
                       Cloned |-> it.ident,
                       body |-> "std::clone::Clone::clone(self)"]>>]
    ELSE [status |-> "Panic", impls |-> <<>>]

\* The emitted fn clone_in(&self, _: &Allocator): std::clone::Clone::clone(self),
\* a value equal to self.
clone_in(block, self) ==
    IF block.body = "std::clone::Clone::clone(self)" THEN self ELSE NoNode

InitCloneIn ==
    /\ NonMaxIdle
    /\ LayoutIdle
    /\ HashIdle
    /\ clone_item \in CloneItems
    /\ clone_out = NoCloneOut
    /\ clone_self \in OrNoNode(IF clone_item.def.kind = "Union" THEN {}
                               ELSE Nodes(clone_item.def))
    /\ clone_ret = NoNode

DeriveCloneIn ==
    /\ clone_out.status = "none"
    /\ clone_out' = derive_clone_in(clone_item)
    /\ UNCHANGED <<clone_item, clone_self, clone_ret>>
    /\ UNCHANGED <<nonmaxVars, layoutVars, hashVars>>

CloneIn ==
    /\ clone_out.status = "Ok" /\ clone_out.impls # <<>>
    /\ clone_self # NoNode /\ clone_ret = NoNode
    /\ clone_ret' = clone_in(clone_out.impls[1], clone_self)
    /\ UNCHANGED <<clone_item, clone_out, clone_self>>
    /\ UNCHANGED <<nonmaxVars, layoutVars, hashVars>>

NextCloneIn == DeriveCloneIn \/ CloneIn

(***************************************************************************)
(* Properties of the NonMax types (checked under SpecNonMax).              *)
(***************************************************************************)
\* a * k + c at the width of a, wrapping
MulAdd(a, k, c) ==
    LET carry[i \in 0..Len(a)] ==
            IF i = 0 THEN c ELSE (a[i] * k + carry[i - 1]) \div 256
    IN  [i \in 1..Len(a) |-> (a[i] * k + carry[i - 1]) % 256]

\* The native value of type t written as the decimal digits ds.
RECURSIVE Decimal(_, _)
Decimal(ds, t) ==
    IF ds = <<>> THEN as_native(0, t)
    ELSE MulAdd(Decimal(SubSeq(ds, 1, Len(ds) - 1), t), 10, ds[Len(ds)])

InRange(a) == Le(a, MAX(native))

\* C1 (round trip): for every width and every n with 0 <= n <= MAX, new(n)
\* succeeds, the value it returns holds the bytes of n unchanged, and
\* to_native of it is n.
C1_RoundTrip ==
    /\ (x.op = "new" /\ InRange(n)) =>
          /\ x.status = "Ok"
          /\ bytes_of_struct(x.val) = to_ne_bytes(n)
    /\ (x.op = "new" /\ ret.op = "to_native") => ret.num = n

C1_Witness ==
    /\ native = "u128" /\ target.endian = "big"
    /\ n = MAX(native)
    /\ x.op = "new" /\ x.status = "Ok"
    /\ ret.op = "to_native" /\ ret.num = n

\* C2 (rejection): for every width and every n with MAX < n <= native::MAX,
\* new(n) panics and try_from(n) returns Err, which ends nothing; neither
\* yields a NonMax value.
C2_Rejection ==
    /\ (x.op = "new" /\ ~InRange(n)) => (x.status = "Panic" /\ x.val = NoVal)
    /\ (y.op = "new" /\ ~InRange(m)) => (y.status = "Panic" /\ y.val = NoVal)
    /\ (x.op = "try_from" /\ ~InRange(n)) => (x.status = "Err" /\ x.val = NoVal)
    /\ (y.op = "try_from" /\ ~InRange(m)) => (y.status = "Err" /\ y.val = NoVal)
    /\ (x.status = "Err" /\ y.op = "none") => (ENABLED NewY /\ ENABLED TryFromY)

C2_Witness ==
    /\ native = "usize"
    /\ ~InRange(n) /\ ~InRange(m)
    /\ x.op = "try_from" /\ x.status = "Err"
    /\ y.op = "new" /\ y.status = "Panic"

\* C3 (the doc comment of try_from): try_from(n) returns Err if n >= MAX, so
\* try_from(MAX) is Err.
C3_ErrFromMax ==
    (x.op = "try_from" /\ Le(MAX(native), n)) => x.status = "Err"

\* C4 (the constant): MAX is (255 << (BITS - 8)) - 1 without overflow, which
\* is 254, 65279, 4278190079 and 18374686479671623679 at 8, 16, 32 and 64
\* bits; new(254) succeeds and new(255) fails at 8 bits, new(4278190080)
\* fails at 32 bits.
C4_MaxTable ==
    /\ Shr(Shl(as_native(255, native), BITS(native) - 8), BITS(native) - 8)
          = as_native(255, native)
    /\ Lt(MAX(native), Shl(as_native(255, native), BITS(native) - 8))
    /\ native = "u8" => MAX(native) = Decimal(<<2, 5, 4>>, native)
    /\ native = "u16" => MAX(native) = Decimal(<<6, 5, 2, 7, 9>>, native)
    /\ native = "u32" =>
          MAX(native) = Decimal(<<4, 2, 7, 8, 1, 9, 0, 0, 7, 9>>, native)
    /\ native = "u64" =>
          MAX(native) = Decimal(<<1, 8, 3, 7, 4, 6, 8, 6, 4, 7,
                                  9, 6, 7, 1, 6, 2, 3, 6, 7, 9>>, native)
    /\ (native = "u8" /\ x.op = "new" /\ n = Decimal(<<2, 5, 4>>, native))
          => x.status = "Ok"
    /\ (native = "u8" /\ x.op = "new" /\ n = Decimal(<<2, 5, 5>>, native))
          => x.status = "Panic"
    /\ (native = "u32" /\ x.op = "new"
            /\ n = Decimal(<<4, 2, 7, 8, 1, 9, 0, 0, 8, 0>>, native))
          => x.status = "Panic"

C4_Witness ==
    /\ native = "u32"
    /\ n = Decimal(<<4, 2, 7, 8, 1, 9, 0, 0, 8, 0>>, native)
    /\ x.op = "new" /\ x.status = "Panic"

\* C5 (order and equality): for legal a and b, cmp(new(a), new(b)) is the
\* ordering of a and b, partial_cmp is Some of it, and new(a) == new(b)
\* exactly when a = b.
C5_OrderPreserved ==
    (x.op = "new" /\ y.op = "new") =>
        /\ ret.op = "cmp" => ret.ord = native_cmp(n, m)
        /\ ret.op = "partial_cmp" => (ret.flag /\ ret.ord = native_cmp(n, m))
        /\ ret.op = "eq" => (ret.flag <=> n = m)

C5_Witness ==
    /\ native = "u64" /\ target.endian = "big"
    /\ x.op = "new" /\ y.op = "new"
    /\ n[Len(n)] = m[Len(m)] /\ n[1] < m[1]
    /\ ret.op = "cmp" /\ ret.ord = "Less"

\* The place of the field `top` among the bytes of the struct.
TopPosition == IF target.endian = "big" THEN 1 ELSE size_of(native)

MostSignificantByte(a) == a[Len(a)]

\* C12 (reserved top byte): above 8 bits, n <= MAX exactly when the most
\* significant byte of n is not 0xFF; that byte lies, in memory, where the
\* field `top` is (first byte on big-endian, last on little-endian); so the
\* `top` of every value new or try_from returns is that byte and one of
\* 0..254, never 0xFF.
C12_ReservedTopByte ==
    /\ BITS(native) > 8 =>
          /\ InRange(n) <=> MostSignificantByte(n) # 255
          /\ InRange(m) <=> MostSignificantByte(m) # 255
    /\ to_ne_bytes(n)[TopPosition] = MostSignificantByte(n)
    /\ x.status = "Ok" =>
          /\ x.val.top = MostSignificantByte(n)
          /\ bytes_of_struct(x.val)[TopPosition] = x.val.top
          /\ x.val.top \in 0..254
    /\ y.status = "Ok" =>
          /\ y.val.top = MostSignificantByte(m)
          /\ bytes_of_struct(y.val)[TopPosition] = y.val.top
          /\ y.val.top \in 0..254

C12_Witness ==
    /\ native = "u32" /\ target.endian = "big"
    /\ n = <<255, 255, 255, 254>>
    /\ x.op = "try_from" /\ x.status = "Ok"
    /\ x.val.top = 254 /\ x.val.bottom = <<255, 255, 255>>
    /\ y.op = "new" /\ y.status = "Ok"

(***************************************************************************)
(* Properties of #[ast] (checked under SpecLayout).                        *)
(***************************************************************************)
\* The shape of a definition: product, sum with a payload-carrying variant,
\* sum of payload-free variants only.
Shape(d) ==
    IF d.kind = "Struct" THEN "product"
    ELSE IF \E i \in 1..Len(d.variants) : d.variants[i].style # "Unit"
    THEN "sum with payload"
    ELSE "sum without payload"

DirectiveOf(shape) ==
    CASE shape = "product" -> "repr(C)"
      [] shape = "sum with payload" -> "repr(C, u8)"
      [] shape = "sum without payload" -> "repr(u8)"

IsTypeDefinition(d) == d.kind \in {"Struct", "Enum"}

\* C6 (layout normalisation): every struct and enum gets a directive, and
\* which one depends on its shape only: repr(C) for a struct, repr(C, u8) for
\* an enum with a payload-carrying variant, repr(u8) for an enum without;
\* two definitions of one shape get the same directive, whatever their field
\* names, field types and variant order.
C6_LayoutByShape ==
    /\ (out.status # "none" /\ IsTypeDefinition(item)) =>
          /\ out.status = "Ok"
          /\ out.repr = DirectiveOf(Shape(item))
          /\ out.item = item
    /\ (out2.status # "none" /\ IsTypeDefinition(item) /\ IsTypeDefinition(item2)
            /\ Shape(item) = Shape(item2)) =>
          out.repr = out2.repr

C6_Witness ==
    /\ item.kind = "Enum" /\ item2.kind = "Enum"
    /\ Len(item.variants) = 2 /\ Len(item2.variants) = 2
    /\ item.variants[1].style = "Unit" /\ item.variants[2].style = "Unnamed"
    /\ item2.variants[1].style = "Named" /\ item2.variants[2].style = "Unit"
    /\ item.variants[1].ident # item2.variants[2].ident
    /\ out.status = "Ok" /\ out2.status = "Ok"
    /\ out.repr = "repr(C, u8)" /\ out2.repr = "repr(C, u8)"

(***************************************************************************)
(* Properties of the ContentHash derive (checked under SpecHash).          *)
(***************************************************************************)
\* The IgnoreSet: (field name, type name).
IgnoreSet ==
    {<<"span", "Span">>, <<"trailing_comma", "Span">>, <<"this_span", "Span">>,
     <<"scope_id", "ScopeId">>, <<"symbol_id", "SymbolId">>,
     <<"reference_id", "ReferenceId">>}

MatchesIgnoreSet(field) ==
    field.name # <<>> /\ <<field.name[1], field.typ>> \in IgnoreSet

BothHashed == state1.status # "none" /\ state2.status # "none"

\* C7 (identity-field invariance): two values of a struct that agree on every
\* field outside the IgnoreSet make the emitted function absorb the same
\* sequence of values.
C7_IdentityFieldInvariance ==
    (/\ def.kind = "Struct" /\ BothHashed
     /\ \A i \in 1..Len(def.fields) :
           ~MatchesIgnoreSet(def.fields[i]) => node1.values[i] = node2.values[i])
    => (/\ state1.status = "Ok" /\ state2.status = "Ok"
        /\ state1.absorbed = state2.absorbed)

C7_Witness ==
    /\ def.kind = "Struct"
    /\ def.fields = <<Field(<<"value">>, "u32"), Field(<<"span">>, "Span")>>
    /\ node1.values = <<5, 5>> /\ node2.values = <<5, 6>>
    /\ state1.status = "Ok" /\ state2.status = "Ok"
    /\ state1.absorbed = <<Absorbed("value", 5)>>
    /\ state2.absorbed = state1.absorbed

\* C8 (sensitivity): two values of a struct that differ in exactly one field,
\* a field that matches no IgnoreSet entry (named or not), make the emitted
\* function absorb different sequences.
C8_Sensitivity ==
    (/\ def.kind = "Struct" /\ BothHashed
     /\ \E i \in 1..Len(def.fields) :
           /\ ~MatchesIgnoreSet(def.fields[i])
           /\ node1.values[i] # node2.values[i]
           /\ \A j \in 1..Len(def.fields) : j # i => node1.values[j] = node2.values[j])
    => (/\ state1.status = "Ok" /\ state2.status = "Ok"
        /\ state1.absorbed # state2.absorbed)

\* What C9 says the emitted function absorbs for a value of an enum.
SumContribution(d, self) ==
    <<Absorbed("discriminant", self.variant)>> \o
        (IF d.variants[self.variant].style = "Unit" THEN <<>>
         ELSE <<Absorbed("value", self.values[1])>>)

\* C9 (sum types): the emitted function of an enum absorbs the discriminant
\* and then the payload, if the variant has one, and nothing else; so two
\* different values of the enum (A and B(p); B(7) and B(8)) are absorbed as
\* different sequences.
C9_SumContribution ==
    /\ (def.kind = "Enum" /\ state1.status # "none") =>
          /\ state1.status = "Ok"
          /\ state1.absorbed = SumContribution(def, node1)
    /\ (def.kind = "Enum" /\ BothHashed /\ node1 # node2) =>
          /\ state2.status = "Ok"
          /\ state1.absorbed # state2.absorbed

\* C10 (totality): derive emits exactly one impl for every struct and enum,
\* and the impl can be called; the body of a struct's is empty, with the
\* hasher parameter unused, exactly when the struct has no field outside the
\* IgnoreSet.
C10_Totality ==
    impl # <<>> =>
        /\ Len(impl) = 1
        /\ compiles(impl[1])
        /\ def.kind = "Struct" =>
              /\ impl[1].body = <<>>
                    <=> \A i \in 1..Len(def.fields) : MatchesIgnoreSet(def.fields[i])
              /\ impl[1].body = <<>> => impl[1].hasher = "_"

\* The fields C11 says derive_struct keeps: those that match no IgnoreSet
\* entry in both name and type, in declaration order.
NotInIgnoreSet(field) == ~MatchesIgnoreSet(field)

\* C11 (product types): the statements derive_struct emits are one absorb
\* statement per field that is not excluded, in declaration order, and a
\* field is excluded only when its name and its type both match one
\* IgnoreSet entry.
C11_KeptFieldsInOrder ==
    (def.kind = "Struct" /\ impl # <<>>) =>
        LET kept == SelectSeq(def.fields, NotInIgnoreSet)
            body == impl[1].body
        IN  /\ Len(body) = Len(kept)
            /\ \A k \in 1..Len(body) :
                  /\ body[k].t = "field_hash"
                  /\ <<body[k].ident>> = kept[k].name

HasPayload(var) == var.style # "Unit"

IsArm(tok) == tok.t # ","

\* C13 (the emitted match): for an enum with a payload-carrying variant the
\* match has one arm per payload-carrying variant, in declaration order, then
\* `_ => {}` exactly when the enum has a payload-free variant; every two
\* consecutive arms have a comma between them, and the impl is one Rust
\* accepts.
C13_WellFormedMatch ==
    (/\ def.kind = "Enum" /\ impl # <<>>
     /\ \E i \in 1..Len(def.variants) : HasPayload(def.variants[i]))
    => (/\ has_match(impl[1].body)
        /\ LET arms == match_arms(impl[1].body)
               only == SelectSeq(arms, IsArm)
               payload == SelectSeq(def.variants, HasPayload)
               mixed == \E i \in 1..Len(def.variants) : ~HasPayload(def.variants[i])
           IN  /\ Len(only) = Len(payload) + (IF mixed THEN 1 ELSE 0)
               /\ \A k \in 1..Len(payload) : only[k] = Tok("arm", payload[k].ident)
               /\ mixed => only[Len(only)] = Tok("wild_arm", "")
               /\ Len(arms) = 2 * Len(only) - 1
               /\ \A i \in 1..Len(arms) : (arms[i].t = ",") <=> (i % 2 = 0)
        /\ compiles(impl[1]))

(***************************************************************************)
(* Properties of #[derive(CloneIn)] (checked under SpecCloneIn).           *)
(***************************************************************************)
Monomorphic(it) == it.def.kind \in {"Struct", "Enum"} /\ Len(it.generics) = 0

\* C14 (CloneIn derive): an impl is produced exactly for a struct or an enum
\* without generic parameters, and its clone_in returns a clone of self; for
\* a struct or enum with a lifetime, type or const parameter, and for any
\* other item, the derive panics and emits nothing.
C14_CloneInMonomorphicOnly ==
    /\ clone_out.status # "none" =>
          /\ Monomorphic(clone_item) <=> clone_out.status = "Ok"
          /\ Monomorphic(clone_item) =>
                /\ Len(clone_out.impls) = 1
                /\ clone_out.impls[1].for = clone_item.ident
                /\ clone_out.impls[1].Cloned = clone_item.ident
          /\ ~Monomorphic(clone_item) =>
                (clone_out.status = "Panic" /\ clone_out.impls = <<>>)
    /\ clone_ret # NoNode => (Monomorphic(clone_item) /\ clone_ret = clone_self)

C14_Witness ==
    /\ clone_item.def.kind = "Enum"
    /\ Len(clone_item.def.variants) = 2
    /\ clone_item.generics = <<[kind |-> "lifetime", ident |-> "'a"]>>
    /\ clone_out.status = "Panic" /\ clone_out.impls = <<>>
    /\ clone_self # NoNode /\ clone_ret = NoNode

SpecNonMax == InitNonMax /\ [][NextNonMax]_vars

SpecLayout == InitLayout /\ [][NextLayout]_vars

SpecHash == InitHash /\ [][NextHash]_vars

SpecCloneIn == InitCloneIn /\ [][NextCloneIn]_vars

Init == InitNonMax \/ InitLayout \/ InitHash \/ InitCloneIn

Next == NextNonMax \/ NextLayout \/ NextHash \/ NextCloneIn

Spec == Init /\ [][Next]_vars

====
